---- MODULE Spec2Model ----
(***************************************************************************)
(* MAVLink 2 message signing: SigningData::verify_signature and            *)
(* SigningData::sign_message of mavlink-core/src/signing.rs, run by        *)
(* threads that share one SigningData (config + Mutex<SigningState>).      *)
(*                                                                         *)
(* Widths.  TLC integers are 32 bits wide, so the 6-byte signature         *)
(* timestamp cannot be kept at 48 bits.  A byte is scaled to ByteBits      *)
(* bits; the timestamp field keeps its 6 bytes (2^(6*ByteBits) values,     *)
(* more than the 60 s window) and the conversion between the u64 floor     *)
(* and the 6 little-endian bytes is computed byte by byte.  The u64 floor  *)
(* itself stays far below 2^64 in every run of the model (it is reached    *)
(* from 48-bit message timestamps, clock readings and at most MaxSigns     *)
(* increments per context).                                                *)
(***************************************************************************)
EXTENDS Integers, Sequences, FiniteSets, TLC

\* ---------------------------------------------------------------- bounds
ByteBits == 4
MaxSigns == 2
MaxTampers == 1

\* ------------------------------------------------------ program constants
MAVLINK_IFLAG_SIGNED == 1
TsBytes == 6
U64Bytes == 8
Window == 60 * 1000 * 100
EpochOffsetSecs == 1420070400
MicrosPerSec == 1000000
TickMicros == 10
\* the window as the specification writes it, 600_000_00
StatedWindow == 600 * 1000 * 100

ByteMod == 2 ^ ByteBits
TsMod == ByteMod ^ TsBytes
TsMax == TsMod - 1

Reader == "reader"
Writer == "writer"
Threads == {Reader, Writer}
NoThread == "nobody"

\* ------------------------------------------------------------ arithmetic
Max(a, b) == IF a >= b THEN a ELSE b

\* x & MAVLINK_IFLAG_SIGNED > 0, the flag being bit 0
IsSignedAlways(flags) == TRUE

IsSigned(flags) == (flags % (2 * MAVLINK_IFLAG_SIGNED)) \div MAVLINK_IFLAG_SIGNED > 0

\* u64::to_le_bytes: the n low bytes of x, least significant first
RECURSIVE LeBytes(_, _)
LeBytes(x, n) == IF n = 0 THEN <<>> ELSE <<x % ByteMod>> \o LeBytes(x \div ByteMod, n - 1)

ToLeBytes(x) == LeBytes(x, U64Bytes)

\* the value of a little-endian byte string
RECURSIVE FromLeBytes(_)
FromLeBytes(bs) == IF bs = <<>> THEN 0 ELSE Head(bs) + ByteMod * FromLeBytes(Tail(bs))

\* ---------------------------------------------------------------- clock
\* SystemTime::now() as duration_since(UNIX_EPOCH) sees it: before the epoch
\* (an Err), or whole seconds and the microseconds within the second.  The
\* u128 of as_micros() is secs * 1000000 + micros; it is kept in these two
\* parts because the product does not fit the integers of the model.
as_micros(wall) ==
    IF wall.before_epoch
      THEN [secs |-> 0, micros |-> 0]
      ELSE [secs |-> wall.secs, micros |-> wall.micros]

\* now.checked_sub(1420070400 * 1000000).unwrap_or_default(): the offset is a
\* whole number of seconds
checked_sub_epoch_late(now) ==
    IF now.secs > EpochOffsetSecs
      THEN [secs |-> now.secs - EpochOffsetSecs, micros |-> now.micros]
      ELSE [secs |-> 0, micros |-> 0]

checked_sub_epoch(now) ==
    IF now.secs >= EpochOffsetSecs
      THEN [secs |-> now.secs - EpochOffsetSecs, micros |-> now.micros]
      ELSE [secs |-> 0, micros |-> 0]

\* .. / 10 as u64
get_current_timestamp(wall) ==
    LET since == checked_sub_epoch(as_micros(wall))
    IN  since.secs * (MicrosPerSec \div TickMicros) + since.micros \div TickMicros

\* ------------------------------------------------------------- messages
\* MAVLinkV2MessageRaw, reduced to the fields signing reads and writes.
signature_timestamp(m) == FromLeBytes(m.ts_bytes)

\* let stream_key = (message.signature_link_id(), src_system, src_component)
StreamKeyNoLink(m) == <<0, m.sysid, m.compid>>

StreamKey(m) == <<m.link_id, m.sysid, m.compid>>

\* the keyed MAC over every byte that precedes the signature value
calculate_signature(key, m) ==
    <<key, m.iflags, m.sysid, m.compid, m.payload, m.ts_bytes, m.link_id>>

\* the signature value of a frame nobody signed
ZeroSig == <<"unsigned", 0, 0, 0, 0, LeBytes(0, TsBytes), 0>>

\* ------------------------------------------------------------- inputs
SecretKey == "key"
ForeignKey == "other"
Links == {0, 1}
SysIds == {1}
CompIds == {1}
StreamKeys == Links \X SysIds \X CompIds
TsInputs == {0, 1}
Clock == {0, Window + 1}
LateClock == {0, 1, TsMax}
WideClock == {0, Window + 1, StatedWindow + 1}

RawMessage(f, s, c, ts, l, k) ==
    LET body == [iflags |-> f, sysid |-> s, compid |-> c, payload |-> 0,
                 ts_bytes |-> LeBytes(ts, TsBytes), link_id |-> l, sig |-> ZeroSig]
    IN  IF k = "unsigned" THEN body ELSE [body EXCEPT !.sig = calculate_signature(k, body)]

\* frames a peer (holding the key or not) can put on the wire, and frames
\* the local sender hands to sign_message
Frames ==
    {RawMessage(1, s, c, ts, l, SecretKey) :
        s \in SysIds, c \in CompIds, ts \in TsInputs, l \in Links}
    \cup {RawMessage(1, s, c, 1, 0, ForeignKey) : s \in SysIds, c \in CompIds}
    \cup {RawMessage(0, s, c, 0, 0, SecretKey) : s \in SysIds, c \in CompIds}

IndepFrames ==
    {RawMessage(1, 1, 1, ts, l, SecretKey) : ts \in {0, 1, Window + 2}, l \in Links}
    \cup {RawMessage(1, 1, 1, 1, l, ForeignKey) : l \in Links}
    \cup {RawMessage(0, 1, 1, 0, 0, SecretKey)}
IndepClock == {1}

\* one stream: two validly signed frames, a forged one and an unsigned one
FairFrames ==
    {RawMessage(1, 1, 1, ts, 0, SecretKey) : ts \in TsInputs}
    \cup {RawMessage(1, 1, 1, 1, 0, ForeignKey), RawMessage(0, 1, 1, 0, 0, SecretKey)}

\* one stream of a peer whose clock is far ahead, up to the end of the field
CoupledFrames ==
    {RawMessage(1, 1, 1, ts, 0, SecretKey) : ts \in {1, Window + 2, TsMax}}
    \cup {RawMessage(0, 1, 1, 0, 0, SecretKey)}
CoupledClock == {0, 1}

ConcFrames == {RawMessage(1, 1, 1, ts, 0, SecretKey) : ts \in {0, 1}}

Outgoing == {RawMessage(f, 1, 1, 0, 0, "unsigned") : f \in {0, 1}}

\* wall clocks around the two epochs
BeforeUnixEpoch == [before_epoch |-> TRUE, secs |-> 0, micros |-> 0]
WallClocks ==
    {BeforeUnixEpoch}
    \cup {[before_epoch |-> FALSE, secs |-> EpochOffsetSecs + d[1], micros |-> d[2]] :
            d \in {<<-1, MicrosPerSec - 1>>, <<0, TickMicros - 1>>, <<0, TickMicros>>,
                    <<1, 0>>}}

Configs ==
    [secret_key : {SecretKey}, link_id : {1},
     sign_outgoing : BOOLEAN, allow_unsigned : BOOLEAN]

NoMessage == RawMessage(0, 0, 0, 0, 0, "unsigned")

VARIABLES
    config,      \* SigningData.config
    floor,       \* SigningState.timestamp
    table,       \* SigningState.stream_timestamps: a function on the keys present
    lock,        \* holder of the Mutex, NoThread when free
    poisoned,    \* the Mutex is poisoned: a holder panicked
    ctx,         \* which SigningData the threads share: "A", or "B" built after it
    signs,       \* flagged sign_message calls completed on this SigningData
    pc,          \* per thread: position in the call
    msg,         \* per thread: the message it holds
    ret,         \* per thread: outcome of its last call
    now_read,    \* per thread: the clock reading of its current/last call
    cause,       \* per thread: why its last verify_signature returned what it did
    origin,      \* history, per thread: the message it holds was signed by "this"
                 \* SigningData, by a "dropped" one, or by "none"
    tampers,     \* history, per thread: bits flipped in the message since it was signed
    twin,        \* history: the state and outcome of the same run of verify_signature
                 \* calls with the calls on stream key twin.k1 left out
    accepted,    \* history: how often verify_signature accepted each message
    last_sign,   \* history: timestamp and clock reading of the flagged sign_message
                 \* call that completed last, no clock raise of another call since
    snap,        \* history, per thread: floor and table as its call found them when
                 \* it got the lock, and the wall clock the call read
    sent         \* history: the timestamps sign_message wrote on this SigningData

vars == <<config, floor, table, lock, poisoned, ctx, signs, pc, msg, ret, now_read,
          cause, origin, tampers, twin, accepted, last_sign, snap, sent>>

thread_vars == <<pc, msg, ret, now_read, cause, origin, tampers>>

state_vars == <<config, floor, table, lock, poisoned, ctx, signs>>

NoSign == [ts |-> -1, now |-> -1]
NoWall == [before_epoch |-> FALSE, secs |-> 0, micros |-> 0]
NoSnap == [floor |-> 0, table |-> [k \in {} |-> 0], wall |-> NoWall]
EmptyTable == [k \in {} |-> 0]
NoHistory == [m \in {} |-> 0]

\* history: one more acceptance of message m
Accept(acc, m) ==
    [a \in DOMAIN acc \cup {m} |->
        IF a = m THEN (IF m \in DOMAIN acc THEN acc[m] + 1 ELSE 1) ELSE acc[a]]

\* SigningData::from_config
FreshState(cfg) ==
    /\ config' = cfg
    /\ floor' = 0
    /\ table' = EmptyTable
    /\ lock' = NoThread
    /\ poisoned' = FALSE
    /\ signs' = 0
    /\ accepted' = NoHistory
    /\ last_sign' = NoSign
    /\ sent' = {}
    /\ twin' = [twin EXCEPT !.floor = 0, !.table = EmptyTable, !.ret = "none"]

NoTwin == [on |-> FALSE, k1 |-> <<0, 0, 0>>, floor |-> 0, table |-> EmptyTable,
           ret |-> "none"]

InitState ==
    /\ config \in Configs
    /\ floor = 0
    /\ table = EmptyTable
    /\ lock = NoThread
    /\ poisoned = FALSE
    /\ ctx = "A"
    /\ signs = 0
    /\ pc = [t \in Threads |-> "idle"]
    /\ msg = [t \in Threads |-> NoMessage]
    /\ ret = [t \in Threads |-> "none"]
    /\ now_read = [t \in Threads |-> 0]
    /\ cause = [t \in Threads |-> "none"]
    /\ origin = [t \in Threads |-> "none"]
    /\ tampers = [t \in Threads |-> 0]
    /\ accepted = NoHistory
    /\ last_sign = NoSign
    /\ snap = [t \in Threads |-> NoSnap]
    /\ sent = {}

Init ==
    /\ twin = NoTwin
    /\ InitState

\* ------------------------------------------------- steps of the two calls
\* state.timestamp = u64::max(state.timestamp, Self::get_current_timestamp())
RaiseFloorAssign(f, now) == now

RaiseFloorSkipped(f, now) == f

RaiseFloor(f, now) == Max(f, now)

\* Some(stream_timestamp) => timestamp <= *stream_timestamp: reject
StaleOnStreamStrict(ts, stream_ts) == ts < stream_ts

StaleOnStream(ts, stream_ts) == ts <= stream_ts

\* None => timestamp + 60 * 1000 * 100 < state.timestamp: reject
TooOldInclusive(ts, f) == ts + Window <= f

TooOld(ts, f) == ts + Window < f

\* signature_buffer == message.signature_value()
SignatureMatchesAlways(cfg, m) == TRUE

SignatureMatches(cfg, m) == calculate_signature(cfg.secret_key, m) = m.sig

\* state.stream_timestamps.insert(stream_key, timestamp)
InsertStreamKeepFirst(tbl, key, ts) ==
    [k \in DOMAIN tbl \cup {key} |-> IF k \in DOMAIN tbl THEN tbl[k] ELSE ts]

InsertStream(tbl, key, ts) ==
    [k \in DOMAIN tbl \cup {key} |-> IF k = key THEN ts ELSE tbl[k]]

\* the timestamp bytes and the link id sign_message writes
StampHighBytes(m, f, cfg) ==
    [m EXCEPT !.ts_bytes = SubSeq(ToLeBytes(f), U64Bytes - TsBytes + 1, U64Bytes),
              !.link_id = cfg.link_id]

Stamp(m, f, cfg) ==
    [m EXCEPT !.ts_bytes = SubSeq(ToLeBytes(f), 1, TsBytes), !.link_id = cfg.link_id]

\* the signature value sign_message writes
WriteSignatureBeforeLink(m, cfg) ==
    [m EXCEPT !.sig = calculate_signature(cfg.secret_key, [m EXCEPT !.link_id = 0])]

WriteSignature(m, cfg) == [m EXCEPT !.sig = calculate_signature(cfg.secret_key, m)]

\* } else { self.config.allow_unsigned }
UnsignedResultAccept(cfg) == TRUE

UnsignedResult(cfg) == cfg.allow_unsigned

\* if message.incompatibility_flags() & MAVLINK_IFLAG_SIGNED > 0 { .. sign .. }
ShouldSignIfOutgoing(cfg, m) == cfg.sign_outgoing /\ IsSigned(m.iflags)

ShouldSign(cfg, m) == IsSigned(m.iflags)

\* state.timestamp += 1
BumpFloorSkipped(f) == f

BumpFloor(f) == f + 1

\* self.state.lock() returns once no other thread holds the guard
LockFreeAlways(l) == TRUE

LockFree(l) == l = NoThread

\* .expect("Code holding MutexGuard should not panic."): a poisoned Mutex
\* makes lock() return Err, and expect panics
LockPanicsNever(p) == FALSE

LockPanics(p) == p

\* the MutexGuard is dropped on every way out of the call
UnlockLeaked(l) == l

Unlock(l) == NoThread

\* state.timestamp = u64::max(state.timestamp, timestamp)
AcceptFloorKept(f, ts) == f

AcceptFloor(f, ts) == Max(f, ts)

BoolRet(b) == IF b THEN "true" ELSE "false"

\* one whole verify_signature call on a signed message, on the twin's state
TwinVerify(tw, cfg, now, m) ==
    LET raised == RaiseFloor(tw.floor, now)
        timestamp == signature_timestamp(m)
        stream_key == StreamKey(m)
        reject == IF stream_key \in DOMAIN tw.table
                    THEN StaleOnStream(timestamp, tw.table[stream_key])
                    ELSE TooOld(timestamp, raised)
        result == ~reject /\ SignatureMatches(cfg, m)
    IN  [tw EXCEPT !.floor = IF result THEN Max(raised, timestamp) ELSE raised,
                   !.table = IF result THEN InsertStream(@, stream_key, timestamp) ELSE @,
                   !.ret = BoolRet(result)]

\* one whole verify_signature call, run alone on the state st
verify_signature(st, cfg, now, m) ==
    IF IsSigned(m.iflags)
      THEN TwinVerify(st, cfg, now, m)
      ELSE [st EXCEPT !.ret = BoolRet(UnsignedResult(cfg))]

\* one whole sign_message call, run alone on floor f
sign_message(f, cfg, now, m) ==
    IF ShouldSign(cfg, m)
      THEN LET raised == RaiseFloor(f, now)
           IN  [floor |-> BumpFloor(raised),
                msg |-> WriteSignature(Stamp(m, raised, cfg), cfg)]
      ELSE [floor |-> f, msg |-> m]

Return(t, r, why) ==
    /\ pc' = [pc EXCEPT ![t] = "idle"]
    /\ now_read' = [now_read EXCEPT ![t] = 0]
    /\ ret' = [ret EXCEPT ![t] = r]
    /\ cause' = [cause EXCEPT ![t] = why]
    /\ snap' = [snap EXCEPT ![t] = NoSnap]

Step(t, label) ==
    /\ pc' = [pc EXCEPT ![t] = label]
    /\ UNCHANGED <<ret, cause>>

Goto(t, label) ==
    /\ Step(t, label)
    /\ UNCHANGED snap

\* the guard is held from here on
Enter(t, label) ==
    /\ Step(t, label)
    /\ snap' = [snap EXCEPT ![t] = [floor |-> floor, table |-> table, wall |-> NoWall]]

\* a frame arrives for thread t, or its caller hands it a frame to send
Receive(t, m) ==
    /\ pc[t] = "idle"
    /\ msg' = [msg EXCEPT ![t] = m]
    /\ ret' = [ret EXCEPT ![t] = "none"]
    /\ cause' = [cause EXCEPT ![t] = "none"]
    /\ now_read' = [now_read EXCEPT ![t] = 0]
    /\ origin' = [origin EXCEPT ![t] = "none"]
    /\ tampers' = [tampers EXCEPT ![t] = 0]
    /\ UNCHANGED <<state_vars, pc, twin, accepted, last_sign, snap, sent>>

\* ---- verify_signature
VerifyCall(t) ==
    /\ pc[t] = "idle"
    /\ msg[t] # NoMessage
    /\ pc' = [pc EXCEPT ![t] = "v_lock"]
    /\ ret' = [ret EXCEPT ![t] = "none"]
    /\ cause' = [cause EXCEPT ![t] = "none"]
    /\ UNCHANGED <<state_vars, msg, now_read, origin, tampers, twin, accepted, last_sign,
                   snap, sent>>

\* self.state.lock().expect(..): blocks while held, panics when poisoned
VerifyLock(t) ==
    /\ pc[t] = "v_lock"
    /\ LockFree(lock)
    /\ IF LockPanics(poisoned)
         THEN Return(t, "panic", "poisoned") /\ UNCHANGED lock
         ELSE Enter(t, "v_flag") /\ lock' = t /\ UNCHANGED now_read
    /\ UNCHANGED <<config, floor, table, poisoned, ctx, signs, msg, origin, tampers,
                   twin, accepted, last_sign, sent>>

\* the else branch: self.config.allow_unsigned
VerifyUnsigned(t) ==
    /\ pc[t] = "v_flag"
    /\ ~IsSigned(msg[t].iflags)
    /\ Return(t, BoolRet(UnsignedResult(config)), "unsigned")
    /\ lock' = Unlock(lock)
    /\ UNCHANGED <<config, floor, table, poisoned, ctx, signs, msg, origin, tampers,
                   twin, accepted, last_sign, sent>>

VerifyClock(t, now) ==
    /\ pc[t] = "v_flag"
    /\ IsSigned(msg[t].iflags)
    /\ floor' = RaiseFloor(floor, now)
    /\ now_read' = [now_read EXCEPT ![t] = now]
    /\ Step(t, "v_check")
    /\ last_sign' = NoSign
    /\ twin' = IF twin.on /\ <<msg[t].link_id, msg[t].sysid, msg[t].compid>> # twin.k1
                 THEN TwinVerify(twin, config, now, msg[t])
                 ELSE twin
    /\ UNCHANGED <<config, table, lock, poisoned, ctx, signs, msg, origin, tampers, accepted,
                   sent>>

\* SystemTime::now() panics while the guard is held: the Mutex is poisoned
VerifyClockPanic(t) ==
    /\ pc[t] = "v_flag"
    /\ IsSigned(msg[t].iflags)
    /\ poisoned' = TRUE
    /\ lock' = Unlock(lock)
    /\ Return(t, "panic", "clock")
    /\ UNCHANGED <<config, floor, table, ctx, signs, msg, origin, tampers, twin, accepted,
                   last_sign, sent>>

VerifyCheck(t) ==
    LET timestamp == signature_timestamp(msg[t])
        stream_key == StreamKey(msg[t])
        known == stream_key \in DOMAIN table
        reject == IF known THEN StaleOnStream(timestamp, table[stream_key])
                           ELSE TooOld(timestamp, floor)
    IN  /\ pc[t] = "v_check"
        /\ IF reject
             THEN /\ Return(t, "false", IF known THEN "stale" ELSE "too_old")
                  /\ lock' = Unlock(lock)
             ELSE /\ Goto(t, "v_mac")
                  /\ UNCHANGED <<lock, now_read>>
        /\ UNCHANGED <<config, floor, table, poisoned, ctx, signs, msg, origin, tampers,
                   twin, accepted, last_sign, sent>>

VerifyMac(t) ==
    LET timestamp == signature_timestamp(msg[t])
        stream_key == StreamKey(msg[t])
        result == SignatureMatches(config, msg[t])
    IN  /\ pc[t] = "v_mac"
        /\ IF result
             THEN /\ table' = InsertStream(table, stream_key, timestamp)
                  /\ floor' = AcceptFloor(floor, timestamp)
                  /\ accepted' = Accept(accepted, msg[t])
             ELSE UNCHANGED <<table, floor, accepted>>
        /\ Return(t, BoolRet(result), IF result THEN "valid" ELSE "mac")
        /\ lock' = Unlock(lock)
        /\ UNCHANGED <<config, poisoned, ctx, signs, msg, origin, tampers, twin, last_sign,
                       sent>>

\* ---- sign_message
\* a message without the signed flag is returned untouched, the lock not taken
SignCall(t) ==
    /\ pc[t] = "idle"
    /\ msg[t] # NoMessage
    /\ IF ShouldSign(config, msg[t])
         THEN /\ signs < MaxSigns
              /\ pc' = [pc EXCEPT ![t] = "s_lock"]
              /\ ret' = [ret EXCEPT ![t] = "none"]
              /\ cause' = [cause EXCEPT ![t] = "none"]
              /\ UNCHANGED <<now_read, snap>>
         ELSE Return(t, "unit", "unflagged")
    /\ UNCHANGED <<state_vars, msg, origin, tampers, twin, accepted, last_sign, sent>>

SignLock(t) ==
    /\ pc[t] = "s_lock"
    /\ LockFree(lock)
    /\ IF LockPanics(poisoned)
         THEN Return(t, "panic", "poisoned") /\ UNCHANGED lock
         ELSE Enter(t, "s_stamp") /\ lock' = t /\ UNCHANGED now_read
    /\ UNCHANGED <<config, floor, table, poisoned, ctx, signs, msg, origin, tampers,
                   twin, accepted, last_sign, sent>>

\* the clock raise, then the timestamp bytes and the link id are written
SignStamp(t, now) ==
    /\ pc[t] = "s_stamp"
    /\ floor' = RaiseFloor(floor, now)
    /\ msg' = [msg EXCEPT ![t] = Stamp(@, floor', config)]
    /\ now_read' = [now_read EXCEPT ![t] = now]
    /\ Step(t, "s_mac")
    /\ UNCHANGED <<config, table, lock, poisoned, ctx, signs, origin, tampers, twin, accepted,
                   last_sign, sent>>

SignClockPanic(t) ==
    /\ pc[t] = "s_stamp"
    /\ poisoned' = TRUE
    /\ lock' = Unlock(lock)
    /\ Return(t, "panic", "clock")
    /\ UNCHANGED <<config, floor, table, ctx, signs, msg, origin, tampers, twin, accepted,
                   last_sign, sent>>

\* the signature value is computed and written, then state.timestamp += 1
SignMac(t) ==
    /\ pc[t] = "s_mac"
    /\ msg' = [msg EXCEPT ![t] = WriteSignature(@, config)]
    /\ floor' = BumpFloor(floor)
    /\ signs' = signs + 1
    /\ lock' = Unlock(lock)
    /\ sent' = sent \cup {signature_timestamp(msg[t])}
    /\ Return(t, "unit", "signed")
    /\ last_sign' = [ts |-> signature_timestamp(msg[t]), now |-> now_read[t]]
    /\ origin' = [origin EXCEPT ![t] = "this"]
    /\ tampers' = [tampers EXCEPT ![t] = 0]
    /\ UNCHANGED <<config, table, poisoned, ctx, twin, accepted>>

\* ---- a new SigningData is built from a clone of the config; the old one is dropped
FromConfig(cfg) ==
    /\ ctx = "A"
    /\ ctx' = "B"
    /\ \A t \in Threads : pc[t] = "idle"
    /\ FreshState(cfg)
    /\ origin' = [t \in Threads |-> IF origin[t] = "none" THEN "none" ELSE "dropped"]
    /\ UNCHANGED <<pc, msg, ret, now_read, cause, tampers, snap>>

\* ---- on the wire, one bit of the bytes the MAC covers is flipped
FlipBit(x, b) == IF (x \div 2 ^ b) % 2 = 1 THEN x - 2 ^ b ELSE x + 2 ^ b

TamperSpots ==
    {<<"iflags", 0>>, <<"compid", 0>>, <<"link_id", 0>>, <<"ts_bytes", 1>>}

Flipped(m, spot) ==
    CASE spot[1] = "iflags" -> [m EXCEPT !.iflags = FlipBit(@, spot[2])]
      [] spot[1] = "compid" -> [m EXCEPT !.compid = FlipBit(@, spot[2])]
      [] spot[1] = "link_id" -> [m EXCEPT !.link_id = FlipBit(@, spot[2])]
      [] spot[1] = "ts_bytes" -> [m EXCEPT !.ts_bytes[spot[2]] = FlipBit(@, 0)]

Tamper(t, spot) ==
    /\ pc[t] = "idle"
    /\ origin[t] # "none"
    /\ tampers[t] < MaxTampers
    /\ msg' = [msg EXCEPT ![t] = Flipped(@, spot)]
    /\ tampers' = [tampers EXCEPT ![t] = @ + 1]
    /\ ret' = [ret EXCEPT ![t] = "none"]
    /\ cause' = [cause EXCEPT ![t] = "none"]
    /\ UNCHANGED <<state_vars, pc, now_read, origin, twin, accepted, last_sign, snap, sent>>

Verify(t, clock) ==
    \/ VerifyCall(t)
    \/ VerifyLock(t)
    \/ VerifyUnsigned(t)
    \/ \E now \in clock : VerifyClock(t, now) /\ UNCHANGED snap
    \/ VerifyCheck(t)
    \/ VerifyMac(t)

Sign(t, clock) ==
    \/ SignCall(t)
    \/ SignLock(t)
    \/ \E now \in clock : SignStamp(t, now) /\ UNCHANGED snap
    \/ SignMac(t)

\* a reader thread verifies what arrives while a writer thread signs what leaves
Next ==
    \/ \E m \in Frames : Receive(Reader, m)
    \/ Verify(Reader, Clock)
    \/ \E m \in Outgoing : Receive(Writer, m)
    \/ Sign(Writer, Clock)

Spec == Init /\ [][Next]_vars

\* the same two threads under a fair scheduler: a call in progress takes its
\* next step sooner or later, and a call waiting for the lock is not overtaken
\* for ever by calls that find it free
Running(t) ==
    \/ VerifyUnsigned(t)
    \/ \E now \in Clock : VerifyClock(t, now) /\ UNCHANGED snap
    \/ VerifyCheck(t)
    \/ VerifyMac(t)
    \/ \E now \in Clock : SignStamp(t, now) /\ UNCHANGED snap
    \/ SignMac(t)

Acquire(t) == VerifyLock(t) \/ SignLock(t)

Fairness == \A t \in Threads : WF_vars(Running(t)) /\ SF_vars(Acquire(t))

NextFair ==
    \/ \E m \in FairFrames : Receive(Reader, m)
    \/ Verify(Reader, Clock)
    \/ \E m \in Outgoing : Receive(Writer, m)
    \/ Sign(Writer, Clock)

InitFair == Init /\ ~config.sign_outgoing

SpecFair == InitFair /\ [][NextFair]_vars /\ Fairness

\* the same two threads, where SystemTime::now() may panic under the guard
NextFault ==
    \/ \E m \in FairFrames : Receive(Reader, m)
    \/ Verify(Reader, Clock)
    \/ VerifyClockPanic(Reader)
    \/ \E m \in Outgoing : Receive(Writer, m)
    \/ Sign(Writer, Clock)
    \/ SignClockPanic(Writer)

SpecFault == Init /\ [][NextFault]_vars

\* the same two threads, the clock readings derived from the wall clock
VerifyWall(t, wall) ==
    /\ VerifyClock(t, get_current_timestamp(wall))
    /\ snap' = [snap EXCEPT ![t].wall = wall]

SignWall(t, wall) ==
    /\ SignStamp(t, get_current_timestamp(wall))
    /\ snap' = [snap EXCEPT ![t].wall = wall]

NextEpoch ==
    \/ \E m \in FairFrames : Receive(Reader, m)
    \/ VerifyCall(Reader)
    \/ VerifyLock(Reader)
    \/ VerifyUnsigned(Reader)
    \/ \E wall \in WallClocks : VerifyWall(Reader, wall)
    \/ VerifyCheck(Reader)
    \/ VerifyMac(Reader)
    \/ \E m \in Outgoing : Receive(Writer, m)
    \/ SignCall(Writer)
    \/ SignLock(Writer)
    \/ \E wall \in WallClocks : SignWall(Writer, wall)
    \/ SignMac(Writer)

SpecEpoch == InitFair /\ [][NextEpoch]_vars

\* the reader accepts messages stamped far ahead of the local clock while
\* the writer signs
NextCoupled ==
    \/ \E m \in CoupledFrames : Receive(Reader, m)
    \/ Verify(Reader, CoupledClock)
    \/ \E m \in Outgoing : Receive(Writer, m)
    \/ Sign(Writer, CoupledClock)

SpecCoupled == InitFair /\ [][NextCoupled]_vars

\* the writer alone, late in the life of the 48-bit timestamp
NextLate ==
    \/ \E m \in Outgoing : Receive(Writer, m)
    \/ Sign(Writer, LateClock)

SpecLate == Init /\ [][NextLate]_vars

\* the reader alone, the clock reaching further than the window
NextWindow ==
    \/ \E m \in Frames : Receive(Reader, m)
    \/ Verify(Reader, WideClock)

SpecWindow == Init /\ [][NextWindow]_vars

\* one thread signs on one SigningData; the message, as it is or with one bit
\* flipped, is verified on that SigningData or on one built afresh
NextRoundTrip ==
    \/ \E m \in Outgoing : Receive(Reader, m)
    \/ Sign(Reader, Clock)
    \/ \E spot \in TamperSpots : Tamper(Reader, spot)
    \/ FromConfig(config)
    \/ Verify(Reader, Clock)

InitRoundTrip == Init /\ config.sign_outgoing

SpecRoundTrip == InitRoundTrip /\ [][NextRoundTrip]_vars

\* two threads verify the same few frames, one of them also signs
NextConc ==
    \/ \E t \in Threads : \E m \in ConcFrames : Receive(t, m)
    \/ \E t \in Threads : Verify(t, Clock)
    \/ \E m \in Outgoing : Receive(Writer, m)
    \/ Sign(Writer, Clock)

SpecConc == Init /\ [][NextConc]_vars

\* the reader alone under one clock reading, next to its twin that skips the
\* calls on one stream key
InitIndep ==
    /\ twin \in {[NoTwin EXCEPT !.on = TRUE, !.k1 = k] : k \in StreamKeys}
    /\ InitState

NextIndep ==
    \/ \E m \in IndepFrames : Receive(Reader, m)
    \/ Verify(Reader, IndepClock)

SpecIndep == InitIndep /\ [][NextIndep]_vars

\* =================================================================== claims
Returned(t) == pc[t] # "idle" /\ pc'[t] = "idle"

VerifyReturned(t) == pc[t] \in {"v_flag", "v_check", "v_mac"} /\ pc'[t] = "idle"

Known(m) == StreamKey(m) \in DOMAIN table

SameStream(a, b) == StreamKey(a) = StreamKey(b)

\* C1: on every stream key the timestamps of the accepted messages strictly
\* increase in acceptance order, and a signed message whose timestamp is not
\* above the value stored for its key is rejected, valid MAC or not.
PerStreamMonotonic ==
    [][\A t \in Threads :
        /\ (pc[t] = "v_mac" /\ ret'[t] = "true")
             => \A a \in DOMAIN accepted :
                   SameStream(a, msg[t])
                     => signature_timestamp(a) < signature_timestamp(msg[t])
        /\ (VerifyReturned(t) /\ IsSigned(msg[t].iflags) /\ Known(msg[t])
              /\ signature_timestamp(msg[t]) <= table[StreamKey(msg[t])])
             => ret'[t] = "false"]_vars

\* two messages were accepted on one stream, and then a validly signed one
\* with an old timestamp was turned down
PerStreamMonotonicWitness ==
    /\ \E a, b \in DOMAIN accepted : a # b /\ SameStream(a, b)
    /\ pc[Reader] = "idle" /\ cause[Reader] = "stale"
    /\ SignatureMatches(config, msg[Reader])

\* C7: state.timestamp of one SigningData never decreases, whatever the
\* clock reads.
MonotonicFloor == [][floor' >= floor]_vars

\* a call has read a clock that went back below the floor
MonotonicFloorWitness ==
    \E t \in Threads : pc[t] \in {"v_check", "s_mac"} /\ now_read[t] < floor - 1

\* C9: a completed verify_signature call on a message without the signed flag
\* returned allow_unsigned, whatever the state and the other fields were.
UnsignedPolicy ==
    \A t \in Threads :
        (pc[t] = "idle" /\ ret[t] \in {"true", "false"} /\ ~IsSigned(msg[t].iflags))
          => ret[t] = BoolRet(config.allow_unsigned)

UnsignedPolicyWitness ==
    /\ pc[Reader] = "idle" /\ ret[Reader] = "true" /\ ~IsSigned(msg[Reader].iflags)
    /\ floor > 0 /\ DOMAIN table # {}

\* thread t entered sign_message in this step
SignCalled(t) ==
    pc[t] = "idle" /\ (pc'[t] = "s_lock" \/ (ret[t] # "unit" /\ ret'[t] = "unit"))

\* C10: sign_message returns at once and changes nothing when the signed flag
\* is not set, and signs a flagged message whatever sign_outgoing is.
SignOnlyFlagged ==
    [][\A t \in Threads :
        /\ (SignCalled(t) /\ ~IsSigned(msg[t].iflags))
             => /\ msg'[t] = msg[t]
                /\ floor' = floor
                /\ table' = table
        /\ SignCalled(t) => (IsSigned(msg[t].iflags) <=> pc'[t] = "s_lock")
        /\ (pc[t] = "s_mac" /\ pc'[t] = "idle")
             => /\ msg'[t].link_id = config.link_id
                /\ SignatureMatches(config, msg'[t])]_vars

\* with sign_outgoing off a flagged message was signed, and a later call on an
\* unflagged message returned
SignOnlyFlaggedWitness ==
    /\ ~config.sign_outgoing
    /\ last_sign # NoSign
    /\ pc[Writer] = "idle" /\ cause[Writer] = "unflagged"
    /\ msg[Writer] \in Outgoing

\* C2 as stated: no message is accepted more than once by one SigningData,
\* however the calls of the threads interleave.
AcceptedOnce == \A m \in DOMAIN accepted : accepted[m] = 1

\* both threads verified the same validly signed message: one got true, the
\* other false
AcceptedOnceWitness ==
    /\ msg[Reader] = msg[Writer] /\ pc[Reader] = "idle" /\ pc[Writer] = "idle"
    /\ ret[Reader] = "true" /\ ret[Writer] = "false" /\ cause[Writer] = "stale"
    /\ msg[Reader] \in DOMAIN accepted

\* thread t holds, unmodified, a flagged message signed on an earlier SigningData
\* with the same key
SignedElsewhere(t) ==
    origin[t] = "dropped" /\ tampers[t] = 0 /\ IsSigned(msg[t].iflags)

\* the SigningData is as from_config left it, but for the clock raise of this call
FreshBut(t) == table = EmptyTable /\ signs = 0 /\ floor = now_read[t]

\* C3 as stated: a message signed on A is accepted by the first verification
\* on a fresh B with the same key, and rejected by a second one.
RoundTripAsStated ==
    [][\A t \in Threads :
        (VerifyReturned(t) /\ SignedElsewhere(t))
          => /\ FreshBut(t) => ret'[t] = "true"
             /\ msg[t] \in DOMAIN accepted => ret'[t] = "false"]_vars

\* C3 amended: the first verification on the fresh B accepts provided B's
\* clock reads no more than the window past the message's timestamp.
RoundTrip ==
    [][\A t \in Threads :
        (VerifyReturned(t) /\ SignedElsewhere(t))
          => /\ (FreshBut(t) /\ signature_timestamp(msg[t]) + Window >= now_read[t])
                  => ret'[t] = "true"
             /\ msg[t] \in DOMAIN accepted => ret'[t] = "false"]_vars

\* the message signed on A was accepted on B and then rejected as a duplicate
RoundTripWitness ==
    /\ origin[Reader] = "dropped" /\ tampers[Reader] = 0
    /\ msg[Reader] \in DOMAIN accepted
    /\ pc[Reader] = "idle" /\ ret[Reader] = "false" /\ cause[Reader] = "stale"

VerifiedTampered(t) ==
    pc[t] = "idle" /\ ret[t] \in {"true", "false"} /\ origin[t] # "none" /\ tampers[t] = 1

\* C4 as stated: a signed message with one covered bit flipped is rejected
\* by every verification, whatever allow_unsigned is.
TamperDetectedAsStated == \A t \in Threads : VerifiedTampered(t) => ret[t] = "false"

\* C4 amended: it is rejected unless the flipped bit is the signed flag; then
\* the message counts as unsigned and allow_unsigned decides.
TamperDetected ==
    \A t \in Threads :
        VerifiedTampered(t)
          => ret[t] = IF IsSigned(msg[t].iflags) THEN "false"
                      ELSE BoolRet(config.allow_unsigned)

\* a signed message with a flipped bit failed the MAC comparison
TamperDetectedWitness ==
    /\ VerifiedTampered(Reader) /\ cause[Reader] = "mac"
    /\ IsSigned(msg[Reader].iflags)

\* a validly signed message on a stream key the table does not hold yet
FirstSeen(t) ==
    /\ VerifyReturned(t) /\ IsSigned(msg[t].iflags)
    /\ ~Known(msg[t]) /\ SignatureMatches(config, msg[t])

\* C5 as stated: the window is 600_000_00 ticks, its boundary inclusive.
NewStreamWindowAsStated ==
    [][\A t \in Threads :
        FirstSeen(t)
          => /\ signature_timestamp(msg[t]) + StatedWindow + 1 = floor => ret'[t] = "false"
             /\ signature_timestamp(msg[t]) + StatedWindow = floor => ret'[t] = "true"]_vars

\* C5 amended: the window is 60 * 1000 * 100 = 6_000_000 ticks (60 s).
NewStreamWindow ==
    [][\A t \in Threads :
        FirstSeen(t)
          => /\ signature_timestamp(msg[t]) + Window + 1 = floor => ret'[t] = "false"
             /\ signature_timestamp(msg[t]) + Window = floor => ret'[t] = "true"]_vars

\* the first message of a stream, stamped exactly one window before the
\* floor, was accepted
NewStreamWindowWitness ==
    /\ pc[Reader] = "idle" /\ ret[Reader] = "true"
    /\ signature_timestamp(msg[Reader]) + Window = floor
    /\ \A a \in DOMAIN accepted : SameStream(a, msg[Reader]) => a = msg[Reader]

\* thread t has stamped a message right after another flagged sign_message
\* call, the clock reading the same tick
BackToBack(t) ==
    pc[t] = "s_mac" /\ last_sign # NoSign /\ now_read[t] = last_sign.now

\* C8 as stated: the second timestamp is strictly greater than the first.
IncrementOnSignAsStated ==
    \A t \in Threads :
        BackToBack(t) => signature_timestamp(msg[t]) > last_sign.ts

\* C8 amended: the second is the first plus one in the 6-byte field, so they
\* differ, and the second is the greater unless the first is the largest
\* value of the field.
IncrementOnSign ==
    \A t \in Threads :
        BackToBack(t)
          => /\ signature_timestamp(msg[t]) = (last_sign.ts + 1) % TsMod
             /\ signature_timestamp(msg[t]) # last_sign.ts
             /\ last_sign.ts < TsMax => signature_timestamp(msg[t]) > last_sign.ts

IncrementOnSignWitness ==
    BackToBack(Writer) /\ signature_timestamp(msg[Writer]) = last_sign.ts + 1

\* the stream a message belongs to, read off its bytes
Stream(m) == <<m.link_id, m.sysid, m.compid>>

\* C6 as stated: the outcome of every verify_signature call on a message of
\* another stream than k1 is what it is in the run without the k1 calls.
IndependentStreamsAsStated ==
    \A t \in Threads :
        (/\ twin.on /\ pc[t] = "idle" /\ ret[t] \in {"true", "false"}
         /\ IsSigned(msg[t].iflags) /\ Stream(msg[t]) # twin.k1)
          => ret[t] = twin.ret

\* C6 amended: a verify_signature call changes no table entry but that of its
\* own stream, and on a stream the table holds the outcome is decided by that
\* entry and the MAC alone.
IndependentStreams ==
    [][\A t \in Threads :
        VerifyReturned(t)
          => /\ \A k \in StreamKeys \ {Stream(msg[t])} :
                  /\ k \in DOMAIN table' <=> k \in DOMAIN table
                  /\ k \in DOMAIN table => table'[k] = table[k]
             /\ (IsSigned(msg[t].iflags) /\ Stream(msg[t]) \in DOMAIN table)
                  => ret'[t] = BoolRet(/\ signature_timestamp(msg[t]) > table[Stream(msg[t])]
                                       /\ SignatureMatches(config, msg[t]))]_vars

\* with stream k1 in the table, a message of another stream the table holds
\* was accepted above the floor-independent entry of its stream
IndependentStreamsWitness ==
    /\ twin.on /\ twin.k1 \in DOMAIN table
    /\ pc[Reader] = "idle" /\ ret[Reader] = "true" /\ Stream(msg[Reader]) # twin.k1
    /\ \E a \in DOMAIN accepted : a # msg[Reader] /\ SameStream(a, msg[Reader])
    /\ twin.ret = "true"

\* the positions of a call at which it holds the guard
Critical == {"v_flag", "v_check", "v_mac", "s_stamp", "s_mac"}

SignReturned(t) == pc[t] = "s_mac" /\ pc'[t] = "idle"

\* the state the call of thread t found when it got the lock
Found(t) == [floor |-> snap[t].floor, table |-> snap[t].table, ret |-> "none"]

\* C11: at most one call is inside its state-touching section at a time, only
\* that call changes the floor or the table, and every call returns, and
\* leaves the state, as if it had run alone on the state it found when it got
\* the lock: the run equals the sequential run in lock order.
MutualExclusion ==
    [][/\ \A t, u \in Threads : (pc[t] \in Critical /\ pc[u] \in Critical) => t = u
       /\ \A t \in Threads : pc[t] \in Critical => lock = t
       /\ (floor' # floor \/ table' # table)
            => \E t \in Threads : lock = t /\ pc[t] \in Critical /\ pc'[t] # pc[t]
       /\ \A t \in Threads :
            VerifyReturned(t)
              => LET alone == verify_signature(Found(t), config, now_read[t], msg[t])
                 IN  /\ ret'[t] = alone.ret
                     /\ floor' = alone.floor
                     /\ table' = alone.table
       /\ \A t \in Threads :
            SignReturned(t)
              => LET alone == sign_message(snap[t].floor, config, now_read[t], msg[t])
                 IN  /\ msg'[t] = alone.msg
                     /\ floor' = alone.floor
                     /\ table' = snap[t].table]_vars

\* a call waits for the lock while the call that holds it has raised the floor
\* and is about to write the table
MutualExclusionWitness ==
    /\ lock = Reader /\ pc[Reader] = "v_mac" /\ floor # snap[Reader].floor
    /\ pc[Writer] \in {"v_lock", "s_lock"}
    /\ SignatureMatches(config, msg[Reader])

Waiting(t) == pc[t] \in {"v_lock", "s_lock"}

accept(has_prior_entry, prior_timestamp, current_floor, message_timestamp) ==
    IF has_prior_entry
      THEN message_timestamp > prior_timestamp
      ELSE ~(message_timestamp + Window < current_floor)

\* C13: for a signed message verify_signature returns true exactly when the
\* acceptance rule holds, the floor taken after the clock raise, and the
\* computed MAC equals the signature value; on true the table maps the key to
\* the message timestamp, the floor is the greater of the raised floor and the
\* message timestamp, and every other table entry is as before.
VerifyDecision ==
    [][\A t \in Threads :
        (VerifyReturned(t) /\ IsSigned(msg[t].iflags))
          => LET key == Stream(msg[t])
                 ts == signature_timestamp(msg[t])
                 before == snap[t].table
                 has == key \in DOMAIN before
                 prior == IF has THEN before[key] ELSE 0
                 raised == Max(snap[t].floor, now_read[t])
                 ok == /\ accept(has, prior, raised, ts)
                       /\ calculate_signature(config.secret_key, msg[t]) = msg[t].sig
             IN  /\ ret'[t] = BoolRet(ok)
                 /\ ok => /\ DOMAIN table' = DOMAIN before \cup {key}
                           /\ table'[key] = ts
                           /\ floor' = Max(raised, ts)
                           /\ \A k \in DOMAIN before \ {key} : table'[k] = before[k]]_vars

\* a message was accepted on a stream the table held, next to another stream,
\* and raised the floor to its timestamp
VerifyDecisionWitness ==
    /\ pc[Reader] = "idle" /\ cause[Reader] = "valid"
    /\ Cardinality(DOMAIN table) = 2
    /\ floor = signature_timestamp(msg[Reader])
    /\ \E a \in DOMAIN accepted : a # msg[Reader] /\ SameStream(a, msg[Reader])

\* C14: when verify_signature returns false for a message with the signed
\* flag set, the table is what the call found and the floor is the greater of
\* the floor it found and the clock reading: the clock raise is made, and the
\* timestamp of the rejected message enters neither.
RejectEffect ==
    [][\A t \in Threads :
        (VerifyReturned(t) /\ IsSigned(msg[t].iflags) /\ ret'[t] = "false")
          => /\ table' = snap[t].table
             /\ floor' = Max(snap[t].floor, now_read[t])
             /\ cause'[t] \in {"stale", "too_old", "mac"}]_vars

\* a forged message stamped above the floor was rejected and the floor is
\* still below its timestamp
RejectEffectWitness ==
    /\ pc[Reader] = "idle" /\ ret[Reader] = "false" /\ cause[Reader] = "mac"
    /\ floor < signature_timestamp(msg[Reader])

\* the signed flag, read off the incompatibility flags
Unflagged(m) == m.iflags % 2 = 0

\* C15 as stated: a verify_signature call on a message without the signed
\* flag leaves floor and table unchanged and never waits for the state.
UnsignedTouchesNothingAsStated ==
    \A t \in Threads :
        (pc[t] = "v_lock" /\ Unflagged(msg[t])) => (lock = NoThread /\ ~poisoned)

\* C15 amended: such a call leaves floor and table as it found them and
\* returns allow_unsigned whatever they hold, but it takes the state lock
\* first: it goes on only once the lock is free, and panics when the lock is
\* poisoned.
UnsignedTouchesNothing ==
    [][\A t \in Threads :
        Unflagged(msg[t])
          => /\ VerifyReturned(t)
                  => /\ lock = t
                     /\ ret'[t] = BoolRet(config.allow_unsigned)
                     /\ floor' = snap[t].floor /\ floor' = floor
                     /\ table' = snap[t].table /\ table' = table
             /\ (pc[t] = "v_lock" /\ pc'[t] # "v_lock")
                  => /\ lock = NoThread
                     /\ floor' = floor /\ table' = table
                     /\ IF poisoned THEN pc'[t] = "idle" /\ ret'[t] = "panic"
                                    ELSE pc'[t] = "v_flag" /\ lock' = t]_vars

\* the reader holds the lock for a message without the signed flag, the floor
\* and the table filled, while the writer waits for it
UnsignedTouchesNothingWitness ==
    /\ pc[Reader] = "v_flag" /\ Unflagged(msg[Reader]) /\ lock = Reader
    /\ floor > 0 /\ DOMAIN table # {}
    /\ pc[Writer] = "s_lock"

\* a call of thread t ends in this step
CallEnded(t) == Returned(t) \/ (pc[t] = "idle" /\ ret[t] # "unit" /\ ret'[t] = "unit")

\* C18 as stated: once a call has faulted under the lock, no later call
\* returns normally and the table is never modified again.
PermanentFaultAsStated ==
    [][poisoned
         => /\ table' = table
            /\ \A t \in Threads : CallEnded(t) => ret'[t] = "panic"]_vars

\* C18 amended: from then on every verify_signature call, signed message or
\* not, and every sign_message call on a message with the signed flag panics,
\* floor and table are never written again, and only sign_message on a message
\* without the signed flag, which never takes the lock, still returns.
PermanentFault ==
    [][poisoned
         => /\ poisoned'
            /\ table' = table /\ floor' = floor
            /\ \A t \in Threads :
                 /\ Returned(t) => ret'[t] = "panic"
                 /\ pc'[t] \notin Critical
                 /\ SignCalled(t)
                      => IF Unflagged(msg[t])
                           THEN ret'[t] = "unit" /\ msg'[t] = msg[t]
                           ELSE pc'[t] = "s_lock"]_vars

\* the clock read of the writer's sign_message panicked, and afterwards the
\* reader's verify_signature on a message without the signed flag did
PermanentFaultWitness ==
    /\ poisoned
    /\ pc[Writer] = "idle" /\ ret[Writer] = "panic" /\ cause[Writer] = "clock"
    /\ pc[Reader] = "idle" /\ ret[Reader] = "panic" /\ cause[Reader] = "poisoned"
    /\ Unflagged(msg[Reader])

\* thread t writes the timestamp and the link id in this step
SignStamped(t) == pc[t] = "s_stamp" /\ pc'[t] = "s_mac"

\* byte i (from 1) of x written least significant byte first
LeByte(x, i) == (x \div ByteMod ^ (i - 1)) % ByteMod

\* what C16 says of the writes of one call, but for the final floor
SignOrder(t) ==
    /\ SignStamped(t)
         => /\ floor' = Max(floor, now_read'[t])
            /\ Len(msg'[t].ts_bytes) = TsBytes
            /\ \A i \in 1..TsBytes : msg'[t].ts_bytes[i] = LeByte(floor', i)
            /\ msg'[t].link_id = config.link_id
            /\ msg'[t].sig = msg[t].sig
            /\ table' = table
    /\ SignReturned(t)
         => /\ msg'[t].sig = calculate_signature(config.secret_key, msg[t])
            /\ msg'[t].ts_bytes = msg[t].ts_bytes
            /\ msg'[t].link_id = msg[t].link_id
            /\ table' = snap[t].table

\* C16 as stated: sign_message raises the floor, writes its low 48 bits and
\* the link id, then computes and stores the MAC over them, and leaves the
\* floor exactly 1 greater than the value it wrote; the table is unchanged.
SignWritesAsStated ==
    [][\A t \in Threads :
        /\ SignOrder(t)
        /\ SignReturned(t) => floor' = signature_timestamp(msg'[t]) + 1]_vars

\* C16 amended: it leaves the floor exactly 1 greater than the raised floor,
\* whose low 48 bits are the value it wrote.
SignWrites ==
    [][\A t \in Threads :
        /\ SignOrder(t)
        /\ SignReturned(t)
             => /\ floor' = Max(snap[t].floor, now_read[t]) + 1
                /\ signature_timestamp(msg'[t]) = Max(snap[t].floor, now_read[t]) % TsMod
                /\ floor < TsMod => floor' = signature_timestamp(msg'[t]) + 1]_vars

\* a call has written the link id of the config over another one, stamped
\* the message above the clock reading and left the floor one higher
SignWritesWitness ==
    /\ pc[Writer] = "idle" /\ cause[Writer] = "signed"
    /\ msg[Writer].link_id = config.link_id
    /\ signature_timestamp(msg[Writer]) + 1 = floor
    /\ last_sign.ts > last_sign.now

\* thread t reads the clock in this step
ClockRead(t) == pc[t] \in {"v_flag", "s_stamp"} /\ pc'[t] \in {"v_check", "s_mac"}

\* the wall clock is before the Unix epoch or before 2015-01-01T00:00:00Z
Degraded(wall) == wall.before_epoch \/ wall.secs < 1420070400

\* microseconds from 2015-01-01T00:00:00Z to a wall clock not before it
MicrosSince2015(wall) == (wall.secs - 1420070400) * 1000000 + wall.micros

\* C17: get_current_timestamp returns 0 when the wall clock is before the
\* Unix epoch or before 2015-01-01T00:00:00Z and otherwise the microseconds
\* since then divided by 10, rounded down; with the degraded clock
\* verify_signature and sign_message go on, the floor left as it was.
TimestampNeverFails ==
    [][\A t \in Threads :
        /\ ClockRead(t)
             => LET wall == snap'[t].wall
                    ticks == now_read'[t]
                IN  /\ ticks = get_current_timestamp(wall)
                    /\ Degraded(wall) => (ticks = 0 /\ floor' = floor)
                    /\ ~Degraded(wall)
                         => /\ 10 * ticks <= MicrosSince2015(wall)
                            /\ MicrosSince2015(wall) < 10 * (ticks + 1)
        /\ ret'[t] # "panic"]_vars

\* a verify_signature call read a wall clock set before the Unix epoch and
\* goes on with the floor that earlier calls had raised
TimestampNeverFailsWitness ==
    /\ pc[Reader] = "v_check" /\ snap[Reader].wall = BeforeUnixEpoch
    /\ now_read[Reader] = 0 /\ floor > 0

\* a message of the stream of m was accepted before
SeenBefore(m) == \E a \in DOMAIN accepted : SameStream(a, m)

\* C19: every timestamp in the table is at most the floor, no key ever leaves
\* the table, and so the new-stream check is made on a stream only until its
\* first accepted message.
FloorDominatesTable ==
    [][/\ \A k \in DOMAIN table' : table'[k] <= floor'
       /\ DOMAIN table \subseteq DOMAIN table'
       /\ \A t \in Threads :
            (pc[t] = "v_check" /\ SeenBefore(msg[t]))
              => (Known(msg[t]) /\ cause'[t] # "too_old")]_vars

\* a message stamped ahead of the clock was accepted, which lifted the floor
\* to the table entry, and a later message of the stream was checked against
\* that entry
FloorDominatesTableWitness ==
    /\ \E k \in DOMAIN table : table[k] = floor /\ floor > 0
    /\ pc[Reader] = "idle" /\ cause[Reader] = "stale" /\ SeenBefore(msg[Reader])

\* x is at least the clock reading of the call of t, at least the timestamp
\* of every message accepted so far, and above every timestamp sign_message
\* wrote before
Coupled(t, x) ==
    /\ x >= now_read'[t]
    /\ \A a \in DOMAIN accepted : x >= signature_timestamp(a)
    /\ \A s \in sent : x > s

\* C20 as stated: the timestamp sign_message writes is at least now(), at
\* least the timestamp of every message accepted before, and above the
\* timestamp of every earlier sign_message call.
CoupledTimestampsAsStated ==
    [][\A t \in Threads :
        SignStamped(t) => Coupled(t, signature_timestamp(msg'[t]))]_vars

\* C20 amended: that holds of the floor sign_message stamps from; the
\* timestamp written is that floor modulo 2^48, so it holds of the written
\* timestamp as long as the floor is below 2^48.
CoupledTimestamps ==
    [][\A t \in Threads :
        SignStamped(t)
          => /\ Coupled(t, floor')
             /\ signature_timestamp(msg'[t]) = floor' % TsMod
             /\ floor' < TsMod => Coupled(t, signature_timestamp(msg'[t]))]_vars

\* after an earlier sign_message call, a message stamped more than the
\* window ahead of the clock was accepted, and the next outgoing message is
\* stamped at or past it
CoupledTimestampsWitness ==
    /\ pc[Writer] = "s_mac" /\ sent # {}
    /\ \E a \in DOMAIN accepted :
          /\ signature_timestamp(a) > now_read[Writer] + Window
          /\ signature_timestamp(msg[Writer]) >= signature_timestamp(a)

====
